---- MODULE Spec2Model ----
(***************************************************************************)
(* A model of NeoforgeProvider (providers/neoforge/provider.py): the       *)
(* staleness-checked repository sync, the content store, the provider      *)
(* facade and the structure renderer.                                      *)
(*                                                                         *)
(* Texts are TLA+ strings, handled character by character with Len, \o     *)
(* and SubSeq.  A path of the working copy is the sequence of its          *)
(* components.  Time is in whole seconds.                                  *)
(***************************************************************************)
EXTENDS Integers, Sequences, FiniteSets, TLC

VARIABLES
    now,      \* time.time(), in seconds
    repo,     \* the working copy repo_dir/"Documentation": [exists, fs]
    tsfile,   \* repo_dir/"last_update.txt": [exists, text]
    branch,   \* self.branch of the current provider object
    pc,       \* "none" before a provider is constructed, then "ready"
    remote,   \* the tree the remote repository holds
    last,     \* record of the last finished call (history)
    boot,     \* the startup program: its inputs, its position, the providers it built
    procs     \* the freshness checks that run side by side on one repo_dir

vars == <<now, repo, tsfile, branch, pc, remote, last, boot, procs>>

----------------------------------------------------------------------------
(* Bounds of the model. *)

\* The clock takes the values d * 86400 + s with d <= MaxDays, s <= MaxSecs.
MaxSecs == 1
MaxDays == 1

\* The longest document of SpecPreview, and the longest of the one-document trees of
\* SpecRender.
MaxLen == 8
MaxTitleLen == 4

(* Program constants. *)

\* "if time_diff > 86400": 24 hours in seconds.
StaleThreshold == 86400

----------------------------------------------------------------------------
(* Text helpers: the str methods the code uses. *)

Min(a, b) == IF a <= b THEN a ELSE b

CharAt(s, i) == SubSeq(s, i, i)

\* str.startswith / str.endswith
StartsWith(s, p) == Len(s) >= Len(p) /\ SubSeq(s, 1, Len(p)) = p
EndsWith(s, p) == Len(s) >= Len(p) /\ SubSeq(s, Len(s) - Len(p) + 1, Len(s)) = p

\* The characters \s matches and str.strip() removes, among those of the model.
IsSpace(c) == c \in {" ", "\n", "\t"}

RECURSIVE LStrip(_, _)
\* s without its leading characters that are in chars (str.lstrip(chars)).
LStrip(s, chars) ==
    IF Len(s) > 0 /\ CharAt(s, 1) \in chars
    THEN LStrip(SubSeq(s, 2, Len(s)), chars)
    ELSE s

RECURSIVE RStrip(_, _)
\* s without its trailing characters that are in chars (str.rstrip(chars)).
RStrip(s, chars) ==
    IF Len(s) > 0 /\ CharAt(s, Len(s)) \in chars
    THEN RStrip(SubSeq(s, 1, Len(s) - 1), chars)
    ELSE s

\* str.strip(chars): both ends.
Strip(s, chars) == RStrip(LStrip(s, chars), chars)

RECURSIVE SplitOn(_, _)
\* str.split(sep) for a one-character separator: always at least one piece.
SplitOn(s, sep) ==
    LET hits == {i \in 1..Len(s) : CharAt(s, i) = sep}
    IN  IF hits = {} THEN <<s>>
        ELSE LET i == CHOOSE k \in hits : \A j \in hits : k <= j
             IN  <<SubSeq(s, 1, i - 1)>> \o SplitOn(SubSeq(s, i + 1, Len(s)), sep)

RECURSIVE Join(_, _)
\* sep.join(parts)
Join(parts, sep) ==
    IF Len(parts) = 0 THEN ""
    ELSE IF Len(parts) = 1 THEN parts[1]
    ELSE parts[1] \o sep \o Join(Tail(parts), sep)

----------------------------------------------------------------------------
(* The timestamp text: str(time.time()) and float(text.strip()). *)

Digits == <<"0", "1", "2", "3", "4", "5", "6", "7", "8", "9">>
IsDigit(c) == \E d \in 1..10 : Digits[d] = c
DigitVal(c) == (CHOOSE d \in 1..10 : Digits[d] = c) - 1

RECURSIVE NatStr(_)
\* The decimal digits of n >= 0.
NatStr(n) == IF n < 10 THEN Digits[n + 1] ELSE NatStr(n \div 10) \o Digits[(n % 10) + 1]

\* str(t) of the float t holding a whole number of seconds: "86400.0".
FloatStr(n) == NatStr(n) \o ".0"

RECURSIVE DigitsVal(_)
DigitsVal(s) == IF Len(s) = 0 THEN 0
                ELSE DigitsVal(SubSeq(s, 1, Len(s) - 1)) * 10 + DigitVal(CharAt(s, Len(s)))

AllDigits(s) == Len(s) > 0 /\ \A i \in 1..Len(s) : IsDigit(CharAt(s, i))

\* float(text.strip()) on the decimal texts "ddd" and "ddd.ddd": [ok, val], val the
\* whole seconds; any other text raises ValueError (ok = FALSE).  The texts of the
\* model have an all-zero fraction, as every text the program writes has here.
ParseFloat(text) ==
    LET t == Strip(text, {" ", "\n", "\t"})
        parts == SplitOn(t, ".")
    IN  IF Len(parts) = 1 /\ AllDigits(parts[1])
        THEN [ok |-> TRUE, val |-> DigitsVal(parts[1])]
        ELSE IF Len(parts) = 2 /\ AllDigits(parts[1]) /\ AllDigits(parts[2])
        THEN [ok |-> TRUE, val |-> DigitsVal(parts[1])]
        ELSE [ok |-> FALSE, val |-> 0]

----------------------------------------------------------------------------
(* The working copy: a set of nodes [path, kind, text]; kind is "dir", "file" *)
(* or "bad" (a file whose read_text raises).                                 *)

Dir(p) == [path |-> p, kind |-> "dir", text |-> ""]
File(p, t) == [path |-> p, kind |-> "file", text |-> t]
BadFile(p) == [path |-> p, kind |-> "bad", text |-> ""]

NoRepo == [exists |-> FALSE, fs |-> {}]
Repo(fs) == [exists |-> TRUE, fs |-> fs]

\* The components of a "/"-separated relative path, as pathlib joins it to
\* repo_dir/"Documentation": empty and "." components vanish.
PathComponents(s) == SelectSeq(SplitOn(s, "/"), LAMBDA c : c # "" /\ c # ".")

\* full_path.exists()
PathExists(r, comps) ==
    /\ r.exists
    /\ comps = <<>> \/ \E n \in r.fs : n.path = comps

----------------------------------------------------------------------------
(* Names are ordered as Python orders str: by code point, character by      *)
(* character.  Ascii lists the characters of the model in code-point order. *)

Ascii == "\t\n #-./0123456789:ABCDEFGHIJKLMNOPQRSTUVWXYZ[]_abcdefghijklmnopqrstuvwxyz"

CodeTable == [c \in {CharAt(Ascii, i) : i \in 1..Len(Ascii)} |->
                 CHOOSE i \in 1..Len(Ascii) : CharAt(Ascii, i) = c]
CharCode(c) == CodeTable[c]

RECURSIVE StrLess(_, _)
\* a < b for str
StrLess(a, b) ==
    IF Len(b) = 0 THEN FALSE
    ELSE IF Len(a) = 0 THEN TRUE
    ELSE IF CharAt(a, 1) = CharAt(b, 1)
    THEN StrLess(SubSeq(a, 2, Len(a)), SubSeq(b, 2, Len(b)))
    ELSE CharCode(CharAt(a, 1)) < CharCode(CharAt(b, 1))

RECURSIVE SeqOfSet(_, _)
\* The elements of the finite set S of entries in ascending (ord = "asc") or
\* descending (ord = "desc") order of name.
SeqOfSet(S, ord) ==
    IF S = {} THEN <<>>
    ELSE LET x == CHOOSE y \in S : \A z \in S \ {y} :
                      IF ord = "asc" THEN StrLess(y.name, z.name) ELSE StrLess(z.name, y.name)
         IN  <<x>> \o SeqOfSet(S \ {x}, ord)

\* The order in which Path.iterdir() yields the entries of a directory is the
\* operating system's; the model lets each call see one of these two.
ScanOrders == {"asc", "desc"}

\* _get_directory_contents(path): the entries of the directory, [] when it does not
\* exist or cannot be iterated (a file: NotADirectoryError, caught).
GetDirectoryContents(r, path, ord) ==
    LET comps == PathComponents(path)
        isDir == comps = <<>> \/ \E n \in r.fs : n.path = comps /\ n.kind = "dir"
        kids == {n \in r.fs : /\ Len(n.path) = Len(comps) + 1
                              /\ SubSeq(n.path, 1, Len(comps)) = comps}
        items == {[name |-> n.path[Len(n.path)],
                   type |-> IF n.kind = "dir" THEN "dir" ELSE "file",
                   path |-> n.path] : n \in kids}
    IN  IF ~PathExists(r, comps) THEN <<>>
        ELSE IF ~isDir THEN <<>>
        ELSE SeqOfSet(items, ord)

\* _get_file_content(path): the text of the file, or an "Error: ..." text.
GetFileContent(r, path) ==
    LET comps == PathComponents(path)
    IN  IF ~PathExists(r, comps) THEN "Error: File does not exist: " \o path
        ELSE IF \E n \in r.fs : n.path = comps /\ n.kind = "file"
        THEN (CHOOSE n \in r.fs : n.path = comps /\ n.kind = "file").text
        ELSE "Error: Failed to read file content (...)"

----------------------------------------------------------------------------
(* The repository sync: _ensure_repository. *)

\* (Mutant of ShouldUpdate: the threshold compared with >= in place of >.)
ShouldUpdate_Ge(r, ts, t) ==
    IF ~r.exists THEN TRUE
    ELSE IF ~ts.exists THEN TRUE
    ELSE LET p == ParseFloat(ts.text)
         IN  IF ~p.ok THEN TRUE
             ELSE (t - p.val) >= StaleThreshold

\* Lines 59-84: whether the check asks for an update.
ShouldUpdate(r, ts, t) ==
    IF ~r.exists THEN TRUE
    ELSE IF ~ts.exists THEN TRUE
    ELSE LET p == ParseFloat(ts.text)
         IN  IF ~p.ok THEN TRUE
             ELSE (t - p.val) > StaleThreshold

\* One call's environment: how each git command ends if the call runs it ("ok",
\* "fail": CalledProcessError, "raise": any other exception, "na": not run in this
\* run), how write_text of the timestamp ends ("ok", "raise": it raises before it
\* changes the file, "torn": it raises after it truncated the file), the tree of the
\* remote, which a successful clone, fallback checkout or pull leaves in the working
\* copy, and the seconds the commands take.
Run(c, co, fb, pl, w, tr, el) ==
    [clone |-> c, checkout |-> co, fallback |-> fb, pull |-> pl, write |-> w,
     tree |-> tr, elapsed |-> el]

\* (Mutant of WriteTimestamp: the time written is a day behind the clock.)
WriteTimestamp_Backdated(ts, t, w) ==
    IF w = "ok"
    THEN [exists |-> TRUE,
          text |-> FloatStr(IF t >= StaleThreshold THEN t - StaleThreshold ELSE t + 1)]
    ELSE IF w = "torn" THEN [exists |-> TRUE, text |-> ""]
    ELSE ts

\* (Mutant of WriteTimestamp: a newer time on disk is not overwritten.)
WriteTimestamp_KeepNewer(ts, t, w) ==
    IF w = "ok"
    THEN IF ts.exists /\ ParseFloat(ts.text).ok /\ ParseFloat(ts.text).val > t THEN ts
         ELSE [exists |-> TRUE, text |-> FloatStr(t)]
    ELSE IF w = "torn" THEN [exists |-> TRUE, text |-> ""]
    ELSE ts

\* Line 134: timestamp_file.write_text(str(time.time())) at time t, ending as w.
WriteTimestamp(ts, t, w) ==
    IF w = "ok" THEN [exists |-> TRUE, text |-> FloatStr(t)]
    ELSE IF w = "torn" THEN [exists |-> TRUE, text |-> ""]
    ELSE ts

\* (Mutant of OnFailure: the timestamp is written on the failure path too.)
OnFailure_Stamp(ts, t) == [exists |-> TRUE, text |-> FloatStr(t)]

\* Lines 120-122 and 138-143: a failed command returns False and leaves the
\* timestamp file alone.
OnFailure(ts, t) == ts

\* (Mutant of FallbackBranch: self.branch is left as it was.)
FallbackBranch_Kept(br) == br

\* Line 119: self.branch = "master", once "checkout master" has succeeded.
FallbackBranch(br) == "master"

\* _ensure_repository with the working copy r, the timestamp file ts, self.branch
\* br, at time t: [ok: the value returned, attempted: a clone or update was started,
\* cmds: the commands run in order, and the state it leaves].
EnsureRepository(r, ts, br, t, run) ==
    LET t2 == t + run.elapsed
        Failed(r2, b2, cmds) ==
            [ok |-> FALSE, attempted |-> TRUE, cmds |-> cmds,
             repo |-> r2, tsfile |-> OnFailure(ts, t2), branch |-> b2, now |-> t2]
        Finish(r2, b2, cmds) ==
            [ok |-> run.write = "ok", attempted |-> TRUE, cmds |-> cmds \o <<"write">>,
             repo |-> r2, tsfile |-> WriteTimestamp(ts, t2, run.write),
             branch |-> b2, now |-> t2]
        Pull(r2, b2, cmds) ==
            IF run.pull = "ok" THEN Finish(Repo(run.tree), b2, cmds \o <<"pull">>)
            ELSE Failed(r2, b2, cmds \o <<"pull">>)
    IN  IF ~ShouldUpdate(r, ts, t) /\ r.exists
        THEN [ok |-> TRUE, attempted |-> FALSE, cmds |-> <<>>,
              repo |-> r, tsfile |-> ts, branch |-> br, now |-> t]
        ELSE IF ~r.exists
        THEN IF run.clone = "ok" THEN Finish(Repo(run.tree), br, <<"clone">>)
             ELSE Failed(r, br, <<"clone">>)
        ELSE IF run.checkout = "ok" THEN Pull(r, br, <<"checkout">>)
        ELSE IF run.checkout = "raise" THEN Failed(r, br, <<"checkout">>)
        ELSE IF run.fallback = "ok"
        THEN Pull(Repo(run.tree), FallbackBranch(br), <<"checkout", "checkout master">>)
        ELSE Failed(r, br, <<"checkout", "checkout master">>)

----------------------------------------------------------------------------
(* The preview and the title of a document. *)

RECURSIVE ReSplitBlank(_)
\* re.split(r'\n\s*\n', s): the leftmost match starts at the first "\n" from which
\* whitespace alone leads to another "\n"; \s* is greedy, so the match ends at the
\* last such "\n".
ReSplitBlank(s) ==
    LET n == Len(s)
        Ends(k) == {e \in (k + 1)..n : /\ CharAt(s, e) = "\n"
                                       /\ \A j \in (k + 1)..(e - 1) : IsSpace(CharAt(s, j))}
        starts == {k \in 1..n : CharAt(s, k) = "\n" /\ Ends(k) # {}}
    IN  IF starts = {} THEN <<s>>
        ELSE LET k == CHOOSE x \in starts : \A y \in starts : x <= y
                 e == CHOOSE x \in Ends(k) : \A y \in Ends(k) : y <= x
             IN  <<SubSeq(s, 1, k - 1)>> \o ReSplitBlank(SubSeq(s, e + 1, n))

\* (Mutant of PreviewParagraphs: one paragraph too many.)
PreviewParagraphs_Four(paragraphs) == SubSeq(paragraphs, 1, Min(4, Len(paragraphs)))

\* paragraphs[:3]
PreviewParagraphs(paragraphs) == SubSeq(paragraphs, 1, Min(3, Len(paragraphs)))

\* "\n\n".join(re.split(r'\n\s*\n', content)[:3])
Preview(content) == Join(PreviewParagraphs(ReSplitBlank(content)), "\n\n")

\* first_line = content.split("\n")[0] if content else name
FirstLine(content, name) == IF content # "" THEN SplitOn(content, "\n")[1] ELSE name

\* title = first_line.strip("# ")
Title(content, name) == Strip(FirstLine(content, name), {"#", " "})

----------------------------------------------------------------------------
(* The structure renderer: _build_structure. *)

\* The folder and the page glyph, each with the space that follows it.
DirMark == "[D] "
FileMark == "[F] "

RECURSIVE Indent(_)
\* "  " * indent
Indent(n) == IF n = 0 THEN "" ELSE "  " \o Indent(n - 1)

\* (Mutant of SortByName: the listing order is kept.)
SortByName_Unsorted(items) == items

RECURSIVE SortByName(_)
\* list.sort(key=lambda x: x["name"]): a stable insertion of each item behind the
\* items whose name is not greater.
SortByName(items) ==
    IF Len(items) <= 1 THEN items
    ELSE LET rest == SortByName(SubSeq(items, 1, Len(items) - 1))
             x == items[Len(items)]
             before == SelectSeq(rest, LAMBDA y : ~StrLess(x.name, y.name))
             after == SelectSeq(rest, LAMBDA y : StrLess(x.name, y.name))
         IN  before \o <<x>> \o after

\* Lines 263-264: the two partitions of a listing.
DirsOf(contents) == SelectSeq(contents, LAMBDA it : it.type = "dir")
DocFilesOf(contents) ==
    SelectSeq(contents, LAMBDA it : it.type = "file" /\ EndsWith(it.name, ".md"))

RECURSIVE Flatten(_)
Flatten(seqs) == IF Len(seqs) = 0 THEN <<>> ELSE seqs[1] \o Flatten(Tail(seqs))

\* Lines 277-302: what one documentation file appends to result.
FileEntry(r, path, indent, name) ==
    LET content == GetFileContent(r, path \o "/" \o name)
        previewLines == SplitOn(Preview(content), "\n")
    IN  <<Indent(indent) \o FileMark \o name \o " - " \o Title(content, name)>>
        \o [i \in 1..Len(previewLines) |-> Indent(indent + 1) \o previewLines[i]]
        \o <<"">>

\* (Mutant of SubEntry: the rendering is appended also when it is empty.)
SubEntry_Always(sub) == <<sub>>

\* Lines 274-275: if sub_structure: result.append(sub_structure)
SubEntry(sub) == IF sub # "" THEN <<sub>> ELSE <<>>

RECURSIVE BuildResult(_, _, _, _)
RECURSIVE BuildStructure(_, _, _, _)

\* The list "result" of _build_structure(path, indent) when the listing is not empty.
BuildResult(r, path, indent, ord) ==
    LET contents == GetDirectoryContents(r, path, ord)
        dirs == SortByName(DirsOf(contents))
        files == SortByName(DocFilesOf(contents))
        DirEntry(name) ==
            LET sub == BuildStructure(r, path \o "/" \o name, indent + 1, ord)
            IN  <<Indent(indent) \o DirMark \o name>> \o SubEntry(sub)
    IN  Flatten([i \in 1..Len(dirs) |-> DirEntry(dirs[i].name)])
        \o Flatten([i \in 1..Len(files) |-> FileEntry(r, path, indent, files[i].name)])

\* _build_structure(path, indent)
BuildStructure(r, path, indent, ord) ==
    IF Len(GetDirectoryContents(r, path, ord)) = 0 THEN ""
    ELSE Join(BuildResult(r, path, indent, ord), "\n")

----------------------------------------------------------------------------
(* The provider facade. *)

\* (Mutant of DocPath: ".md" appended whatever the path ends in.)
DocPath_Always(version, file_path) ==
    "versioned_docs/" \o version \o "/" \o file_path \o ".md"

\* Lines 319-322 and 347-350: the path read for (version, file_path).
DocPath(version, file_path) ==
    "versioned_docs/" \o version \o "/"
    \o (IF EndsWith(file_path, ".md") THEN file_path ELSE file_path \o ".md")

\* (Mutant of ListVersions: the entry's type is not looked at.)
ListVersions_AnyType(r, ord) ==
    LET contents == GetDirectoryContents(r, "versioned_docs", ord)
        versions == SelectSeq(contents, LAMBDA it : StartsWith(it.name, "version-"))
    IN  IF Len(versions) = 0
        THEN "No versions found in the Neoforge documentation repository."
        ELSE Join([i \in 1..Len(versions) |-> versions[i].name], "\n")

\* Lines 212-218 of get_versions, after a successful freshness check.
ListVersions(r, ord) ==
    LET contents == GetDirectoryContents(r, "versioned_docs", ord)
        versions == SelectSeq(contents,
                        LAMBDA it : it.type = "dir" /\ StartsWith(it.name, "version-"))
    IN  IF Len(versions) = 0
        THEN "No versions found in the Neoforge documentation repository."
        ELSE Join([i \in 1..Len(versions) |-> versions[i].name], "\n")

\* get_structure(version), lines 234-240.
StructureOf(r, version, ord) ==
    LET structure == BuildStructure(r, "versioned_docs/" \o version, 0, ord)
    IN  IF structure = "" THEN "No structure found for version: " \o version
        ELSE structure

\* get_preview(version, file_path), lines 319-329.
PreviewOf(r, version, file_path) == Preview(GetFileContent(r, DocPath(version, file_path)))

\* get_full_content(version, file_path), lines 347-351.
FullContentOf(r, version, file_path) == GetFileContent(r, DocPath(version, file_path))

----------------------------------------------------------------------------
(* The environment of the provider: the remote repository and the disk. *)

\* What the remote may hold under "versioned_docs".
Candidates ==
    { Dir(<<"versioned_docs", "version-1">>),
      Dir(<<"versioned_docs", "version-2">>),
      File(<<"versioned_docs", "version-3">>, "not a directory"),
      Dir(<<"versioned_docs", "current">>) }

\* The tree with the entries S; version-1, when there, holds a file "a" and the
\* document a.md, readable or not.
TreeOf(S, readable) ==
    {Dir(<<"versioned_docs">>)} \cup S
    \cup (IF Dir(<<"versioned_docs", "version-1">>) \in S
          THEN { IF readable
                 THEN File(<<"versioned_docs", "version-1", "a.md">>, "# A\n\nText of a.")
                 ELSE BadFile(<<"versioned_docs", "version-1", "a.md">>),
                 File(<<"versioned_docs", "version-1", "a">>, "plain a") }
          ELSE {})

\* The trees the remote may hold: one without "versioned_docs", one
\* with an empty "versioned_docs", one with a single version and one with two, the
\* last two beside entries that are no versions.
RemoteTrees ==
    { {}, TreeOf({}, TRUE),
      TreeOf(Candidates \ {Dir(<<"versioned_docs", "version-2">>)}, FALSE),
      TreeOf(Candidates, TRUE) }

Branches == {"main", "master"}
Versions == {"version-1", "version-4"}
FilePaths == {"a", "a.md", "md"}

\* The runs of a call that clones.
CloneRuns(tr) ==
    {Run("ok", "na", "na", "na", w, tr, el) : w \in {"ok", "raise", "torn"}, el \in {0, 1}}
    \cup {Run(c, "na", "na", "na", "na", tr, 0) : c \in {"fail", "raise"}}

\* The runs of a call that updates.
UpdateRuns(tr) ==
    {Run("na", c[1], c[2], "ok", w, tr, el) :
        c \in {<<"ok", "na">>, <<"fail", "ok">>},
        w \in {"ok", "raise", "torn"}, el \in {0, 1}}
    \cup {Run("na", c[1], c[2], pl, "na", tr, 0) :
            c \in {<<"ok", "na">>, <<"fail", "ok">>}, pl \in {"fail", "raise"}}
    \cup {Run("na", "raise", "na", "na", "na", tr, 0)}
    \cup {Run("na", "fail", fb, "na", "na", tr, 0) : fb \in {"fail", "raise"}}

\* The run of a call that runs no command.
IdleRun(tr) == Run("na", "na", "na", "na", "na", tr, 0)

\* The runs the environment offers a call of _ensure_repository: the idle run when the
\* call starts no command, else those of the command the disk asks for.
RunsFor(r, ts, br, t, tr) ==
    IF ~EnsureRepository(r, ts, br, t, IdleRun(tr)).attempted THEN {IdleRun(tr)}
    ELSE IF r.exists THEN UpdateRuns(tr) ELSE CloneRuns(tr)

\* The clock stays within the bounds.
CanTick == now % StaleThreshold < MaxSecs
CanJump == now \div StaleThreshold < MaxDays

\* No startup program runs, and no freshness checks side by side.
NoBoot == [step |-> "off"]
NoProcs == <<>>

NoCall == [op |-> "none", version |-> "", file_path |-> "", ret |-> "",
           log |-> <<>>, ens |-> <<>>, end |-> 0,
           pre |-> [exists |-> FALSE, tsfile |-> [exists |-> FALSE, text |-> ""],
                    now |-> 0, branch |-> ""]]

\* The record of a finished call: its result, the order of its freshness checks
\* ("ensure") and of its first access to the content store ("list", "read"), and
\* what each freshness check did; pre is the state the call started in and end the
\* time it returned.
Call(op, version, file_path, ret, log, ens, end) ==
    [op |-> op, version |-> version, file_path |-> file_path, ret |-> ret,
     log |-> log, ens |-> ens, end |-> end,
     pre |-> [exists |-> repo.exists, tsfile |-> tsfile, now |-> now, branch |-> branch]]

Summary(e, run) == [ok |-> e.ok, attempted |-> e.attempted, cmds |-> e.cmds, run |-> run]

----------------------------------------------------------------------------
(* The operations. *)

Init ==
    /\ now = 0
    /\ remote \in RemoteTrees
    /\ repo \in {NoRepo, Repo(remote)}
    /\ tsfile \in { [exists |-> FALSE, text |-> ""],
                    [exists |-> TRUE, text |-> FloatStr(0)],
                    [exists |-> TRUE, text |-> ""] }
    /\ branch = ""
    /\ pc = "none"
    /\ last = NoCall
    /\ boot = NoBoot
    /\ procs = NoProcs

\* One second passes.
Tick ==
    /\ CanTick
    /\ now' = now + 1
    /\ UNCHANGED <<repo, tsfile, branch, pc, remote, last, boot, procs>>

\* A day passes.
Jump ==
    /\ CanJump
    /\ now' = now + StaleThreshold
    /\ UNCHANGED <<repo, tsfile, branch, pc, remote, last, boot, procs>>

\* NeoforgeProvider(branch=b): __init__ ends with a freshness check, whose result it
\* drops.
ConstructCall(b) ==
    /\ \E run \in RunsFor(repo, tsfile, b, now, remote) :
        /\ run.elapsed = 1 => CanTick
        /\ LET e == EnsureRepository(repo, tsfile, b, now, run)
           IN  /\ repo' = e.repo
               /\ tsfile' = e.tsfile
               /\ branch' = e.branch
               /\ now' = e.now
               /\ last' = [Call("init", "", "", "", <<"ensure">>, <<Summary(e, run)>>, e.now)
                             EXCEPT !.pre.branch = b]
    /\ pc' = "ready"
    /\ UNCHANGED remote

\* The provider of Spec and SpecFacade is constructed once.
Construct(b) ==
    /\ pc = "none"
    /\ ConstructCall(b)
    /\ UNCHANGED <<boot, procs>>

\* get_versions()
GetVersionsCall ==
    /\ pc = "ready"
    /\ \E run \in RunsFor(repo, tsfile, branch, now, remote) :
        /\ run.elapsed = 1 => CanTick
        /\ LET e == EnsureRepository(repo, tsfile, branch, now, run)
           IN  /\ repo' = e.repo
               /\ tsfile' = e.tsfile
               /\ branch' = e.branch
               /\ now' = e.now
               /\ IF ~e.ok
                  THEN last' = Call("get_versions", "", "",
                                    "Error: Failed to ensure repository is up to date.",
                                    <<"ensure">>, <<Summary(e, run)>>, e.now)
                  ELSE \E ord \in ScanOrders :
                         last' = Call("get_versions", "", "", ListVersions(e.repo, ord),
                                      <<"ensure", "list">>, <<Summary(e, run)>>, e.now)
    /\ UNCHANGED <<pc, remote>>

GetVersions == GetVersionsCall /\ UNCHANGED <<boot, procs>>

\* get_structure(version)
GetStructure(version) ==
    /\ pc = "ready"
    /\ \E ord \in ScanOrders :
        last' = Call("get_structure", version, "", StructureOf(repo, version, ord),
                     <<"list">>, <<>>, now)
    /\ UNCHANGED <<now, repo, tsfile, branch, pc, remote, boot, procs>>

\* get_preview(version, file_path)
GetPreview(version, file_path) ==
    /\ pc = "ready"
    /\ last' = Call("get_preview", version, file_path,
                    PreviewOf(repo, version, file_path), <<"read">>, <<>>, now)
    /\ UNCHANGED <<now, repo, tsfile, branch, pc, remote, boot, procs>>

\* get_full_content(version, file_path)
GetFullContent(version, file_path) ==
    /\ pc = "ready"
    /\ last' = Call("get_full_content", version, file_path,
                    FullContentOf(repo, version, file_path), <<"read">>, <<>>, now)
    /\ UNCHANGED <<now, repo, tsfile, branch, pc, remote, boot, procs>>

\* The sync manager under its two callers, as time passes.
Next ==
    \/ Tick
    \/ Jump
    \/ \E b \in Branches : Construct(b)
    \/ GetVersions

Spec == Init /\ [][Next]_vars

\* The four operations of the facade on one provider.
NextFacade ==
    \/ \E b \in Branches : Construct(b)
    \/ GetVersions
    \/ \E v \in Versions : GetStructure(v)
    \/ \E v \in Versions, p \in FilePaths : GetPreview(v, p)
    \/ \E v \in Versions, p \in FilePaths : GetFullContent(v, p)

SpecFacade == Init /\ [][NextFacade]_vars

----------------------------------------------------------------------------
(* The renderer and the preview on bounded documents and trees. *)

RECURSIVE StringsOfLen(_, _)
StringsOfLen(A, n) ==
    IF n = 0 THEN {""} ELSE {x \o c : x \in StringsOfLen(A, n - 1), c \in A}

\* The texts of at most n characters of A.
Texts(A, n) == UNION {StringsOfLen(A, k) : k \in 0..n}

VersionDir == <<"versioned_docs", "version-1">>

\* A working copy whose version-1 holds the nodes given.
VersionTree(nodes) == {Dir(<<"versioned_docs">>), Dir(VersionDir)} \cup nodes

\* A state in which a provider serves the fresh working copy fs.
Serving(fs) ==
    /\ now = 0
    /\ remote = fs
    /\ repo = Repo(fs)
    /\ tsfile = [exists |-> TRUE, text |-> FloatStr(0)]
    /\ branch = "main"
    /\ pc = "ready"
    /\ last = NoCall
    /\ boot = NoBoot
    /\ procs = NoProcs

\* The preview of one document a.md, by get_preview and within get_structure.
InitPreview ==
    \E text \in Texts({"\n", " ", "a"}, MaxLen) :
        Serving(VersionTree({File(VersionDir \o <<"a.md">>, text)}))

NextPreview ==
    \/ GetPreview("version-1", "a")
    \/ GetStructure("version-1")

SpecPreview == InitPreview /\ [][NextPreview]_vars

\* The entries version-1 may hold, each absent, a file or a directory.
RootNames == {"a.md", "B.md", "b", "c"}
\* The entries each of its directories may hold: files, and an empty directory "s".
ChildNames == {"x.md", "A.md", "n.txt", "s"}

DocText == "# T\n\nbody"

RenderTrees ==
    { VersionTree(
        {Dir(VersionDir \o <<n>>) : n \in {m \in RootNames : kind[m] = "dir"}}
        \cup {File(VersionDir \o <<n>>, DocText) : n \in {m \in RootNames : kind[m] = "file"}}
        \cup UNION { {IF c = "s" THEN Dir(VersionDir \o <<n, c>>)
                      ELSE File(VersionDir \o <<n, c>>, DocText) : c \in sub}
                     : n \in {m \in RootNames : kind[m] = "dir"} })
      : kind \in [RootNames -> {"none", "file", "dir"}], sub \in SUBSET ChildNames }

\* Trees of one document, of any short text, under a plain name or one that begins
\* with "#".
TitleTrees ==
    { VersionTree({File(VersionDir \o <<n>>, text)})
      : n \in {"a.md", "#a.md"}, text \in Texts({"#", " ", "a", "\n"}, MaxTitleLen) }

InitRender == \E fs \in RenderTrees \cup TitleTrees : Serving(fs)

NextRender == \E v \in Versions : GetStructure(v)

SpecRender == InitRender /\ [][NextRender]_vars

----------------------------------------------------------------------------
(* The startup programs: main.py, and run_server.py run as a script. *)

\* sub in s
Contains(s, sub) ==
    \E i \in 1..(Len(s) - Len(sub) + 1) : SubSeq(s, i, i + Len(sub) - 1) = sub

\* An environment variable, or a flag, that is not given.
Unset == ""

Programs == {"main.py", "run_server.py"}
\* The values of MCP_BRANCH and of --branch.
EnvBranches == {Unset, "master", "dev"}
FlagBranches == {Unset, "master"}

\* args.branch: parser.add_argument("--branch", default="main")
ArgsBranch == IF boot.flag # Unset THEN boot.flag ELSE "main"

\* The branch of the first provider: args.branch in main.py; in run_server.py the
\* module's branch, DEFAULT_BRANCH or MCP_BRANCH.
FirstBranch ==
    IF boot.program = "main.py" THEN ArgsBranch
    ELSE IF boot.env # Unset THEN boot.env ELSE "main"

\* alt_branch = "master" if branch == "main" else "main"
AltBranch(b) == IF b = "main" THEN "master" ELSE "main"

\* NeoforgeProvider(branch=b, repo_dir=repo_dir) within the startup program: the
\* constructor returns a provider (and the program goes on at ok, registering the
\* provider at once when reg), or repo_dir.mkdir raises before anything else is done
\* (and the program goes on at raised).
BuildProvider(b, ok, raised, reg) ==
    \/ /\ ConstructCall(b)
       /\ boot' = [boot EXCEPT !.built = Append(@, [asked |-> b, raised |-> FALSE]),
                               !.step = ok,
                               !.registered = IF reg THEN Len(boot.built) + 1 ELSE @]
    \/ /\ boot' = [boot EXCEPT !.built = Append(@, [asked |-> b, raised |-> TRUE]),
                               !.step = raised]
       /\ UNCHANGED <<now, repo, tsfile, branch, pc, remote, last>>

InitStartup ==
    /\ now = 0
    /\ remote = TreeOf(Candidates, TRUE)
    /\ repo \in {NoRepo, Repo(remote)}
    /\ tsfile \in { [exists |-> FALSE, text |-> ""],
                    [exists |-> TRUE, text |-> FloatStr(0)] }
    /\ branch = ""
    /\ pc = "none"
    /\ last = NoCall
    /\ boot \in [program : Programs, env : EnvBranches, flag : FlagBranches,
                 step : {"start"}, built : {<<>>}, registered : {0}, versions : {""}]
    /\ procs = NoProcs

\* The first provider (main.py 50-55, run_server.py 43-48).
BootBuild ==
    /\ boot.step = "start"
    /\ BuildProvider(FirstBranch, "probe", "except", FALSE)
    /\ UNCHANGED procs

\* versions = neoforge_provider.get_versions(); if "Error" in versions
BootProbe ==
    /\ boot.step = "probe"
    /\ GetVersionsCall
    /\ boot' = [boot EXCEPT !.versions = last'.ret,
                            !.step = IF Contains(last'.ret, "Error") THEN "alt"
                                     ELSE "register"]
    /\ UNCHANGED procs

\* The provider of the alternate branch, built inside the try block.
BootAlt ==
    /\ boot.step = "alt"
    /\ BuildProvider(AltBranch(FirstBranch), "register", "except", FALSE)
    /\ UNCHANGED procs

\* except Exception: the provider of the alternate branch; what it raises ends the
\* program.
BootExcept ==
    /\ boot.step = "except"
    /\ BuildProvider(AltBranch(FirstBranch), "register", "crashed", FALSE)
    /\ UNCHANGED procs

\* server.register_provider("neoforge", neoforge_provider); run_server.py goes on
\* with main().
BootRegister ==
    /\ boot.step = "register"
    /\ boot' = [boot EXCEPT !.registered = Len(boot.built),
                            !.step = IF boot.program = "run_server.py" THEN "main"
                                     ELSE "run"]
    /\ UNCHANGED <<now, repo, tsfile, branch, pc, remote, last, procs>>

\* main() of run_server.py: branch = args.branch, and as args.branch is never empty
\* a provider of that branch is built and registered; what the constructor raises is
\* logged.
BootMain ==
    /\ boot.step = "main"
    /\ BuildProvider(ArgsBranch, "run", "run", TRUE)
    /\ UNCHANGED procs

\* server.run()
BootRun ==
    /\ boot.step = "run"
    /\ boot' = [boot EXCEPT !.step = "serving"]
    /\ UNCHANGED <<now, repo, tsfile, branch, pc, remote, last, procs>>

NextStartup ==
    \/ BootBuild
    \/ BootProbe
    \/ BootAlt
    \/ BootExcept
    \/ BootRegister
    \/ BootMain
    \/ BootRun

SpecStartup == InitStartup /\ [][NextStartup]_vars

----------------------------------------------------------------------------
(* Two freshness checks side by side on one repo_dir, statement by statement. *)

Checkers == {1, 2}

\* A check that has not started: step is its position in _ensure_repository, saw what
\* it found on disk when it decided, attempted whether it started a clone or update,
\* t the time it read for the timestamp.
IdleCheck ==
    [step |-> "idle", attempted |-> FALSE, t |-> 0,
     saw |-> [exists |-> FALSE, tsfile |-> [exists |-> FALSE, text |-> ""], now |-> 0]]

InitRace ==
    /\ now = 0
    /\ remote = TreeOf(Candidates, TRUE)
    /\ repo \in {NoRepo, Repo(remote)}
    /\ tsfile \in { [exists |-> FALSE, text |-> ""],
                    [exists |-> TRUE, text |-> FloatStr(0)],
                    [exists |-> TRUE, text |-> ""] }
    /\ branch = "main"
    /\ pc = "ready"
    /\ last = NoCall
    /\ boot = NoBoot
    /\ procs = [ps |-> [p \in Checkers |-> IdleCheck], writes |-> <<>>]

\* Lines 59-88 of check p: the decision, on what the disk holds now; nothing is
\* locked.
RaceCheck(p) ==
    /\ procs.ps[p].step = "idle"
    /\ LET go == ShouldUpdate(repo, tsfile, now) \/ ~repo.exists
       IN procs' = [procs EXCEPT !.ps[p] =
                       [step |-> IF go THEN "sync" ELSE "done",
                        attempted |-> go, t |-> 0,
                        saw |-> [exists |-> repo.exists, tsfile |-> tsfile, now |-> now]]]
    /\ UNCHANGED <<now, repo, tsfile, branch, pc, remote, last, boot>>

\* Lines 90-130 of check p: the clone, or the checkout and pull; a command that fails
\* ends the check.
RaceSync(p) ==
    /\ procs.ps[p].step = "sync"
    /\ \E gitok \in BOOLEAN :
          IF gitok
          THEN /\ repo' = Repo(remote)
               /\ procs' = [procs EXCEPT !.ps[p].step = "clock"]
          ELSE /\ repo' = repo
               /\ procs' = [procs EXCEPT !.ps[p].step = "done"]
    /\ UNCHANGED <<now, tsfile, branch, pc, remote, last, boot>>

\* Line 134 of check p, first half: str(time.time())
RaceClock(p) ==
    /\ procs.ps[p].step = "clock"
    /\ procs' = [procs EXCEPT !.ps[p].step = "write", !.ps[p].t = now]
    /\ UNCHANGED <<now, repo, tsfile, branch, pc, remote, last, boot>>

\* Line 134 of check p, second half: timestamp_file.write_text(...)
RaceWrite(p) ==
    /\ procs.ps[p].step = "write"
    /\ \E w \in {"ok", "raise", "torn"} :
          /\ tsfile' = WriteTimestamp(tsfile, procs.ps[p].t, w)
          /\ procs' = [procs EXCEPT !.ps[p].step = "done",
                                    !.writes = Append(@, [by |-> p, t |-> procs.ps[p].t,
                                                          w |-> w, over |-> tsfile])]
    /\ UNCHANGED <<now, repo, branch, pc, remote, last, boot>>

\* Time passes while the checks run.
RaceTick ==
    /\ \/ CanTick /\ now' = now + 1
       \/ CanJump /\ now' = now + StaleThreshold
    /\ UNCHANGED <<repo, tsfile, branch, pc, remote, last, boot, procs>>

NextRace ==
    \/ \E p \in Checkers : RaceCheck(p)
    \/ \E p \in Checkers : RaceSync(p)
    \/ \E p \in Checkers : RaceClock(p)
    \/ \E p \in Checkers : RaceWrite(p)
    \/ RaceTick

SpecRace == InitRace /\ [][NextRace]_vars

----------------------------------------------------------------------------
(* Properties of the sync manager and the facade. *)

\* The values the clock takes.
ClockValues == {d * 86400 + x : d \in 0..MaxDays, x \in 0..MaxSecs}

\* The last call ran the freshness check.
SyncCall == last.ens # <<>>

FacadeOps == {"get_versions", "get_structure", "get_preview", "get_full_content"}

\* The state the last call started in held a working copy and a timestamp file
\* whose text is a number T with now - T <= 86400.
FreshBefore ==
    /\ last.pre.exists
    /\ last.pre.tsfile.exists
    /\ \E T \in ClockValues : /\ last.pre.tsfile.text = FloatStr(T)
                              /\ last.pre.now - T <= 86400

\* C1: a freshness check skips the sync and returns success if and only if the
\* working copy exists, the timestamp file exists and reads as a number T, and
\* now - T <= 86400; in every other case it starts a clone (no working copy) or an
\* update (checkout first).
C1_SkipIffFresh ==
    SyncCall =>
        LET c == last.ens[1]
        IN  /\ FreshBefore <=> ~c.attempted
            /\ ~c.attempted => c.ok /\ c.cmds = <<>>
            /\ c.attempted =>
                 c.cmds[1] = (IF last.pre.exists THEN "checkout" ELSE "clone")

\* C1 witness: a check exactly 86400 seconds after the persisted time skipped.
C1_Witness ==
    /\ SyncCall
    /\ ~last.ens[1].attempted
    /\ last.pre.now >= 86400
    /\ last.pre.tsfile.text = FloatStr(last.pre.now - 86400)

\* C2 (as claimed): each facade operation runs the freshness check exactly once, and
\* before it lists a directory or reads a file.
C2_EnsureOncePerCall ==
    last.op \in FacadeOps =>
        /\ Len(last.ens) = 1
        /\ last.log[1] = "ensure"
        /\ Cardinality({i \in 1..Len(last.log) : last.log[i] = "ensure"}) = 1

\* A command of the last freshness check failed before the timestamp write.
CommandFailed(c) ==
    \/ c.run.clone \in {"fail", "raise"}
    \/ c.run.checkout = "raise"
    \/ c.run.checkout = "fail" /\ c.run.fallback \in {"fail", "raise"}
    \/ c.run.pull \in {"fail", "raise"}

\* The last freshness check attempted a sync that failed, at any step.
SyncFailed == SyncCall /\ last.ens[1].attempted /\ ~last.ens[1].ok

\* The last freshness check attempted a sync, of which a git command failed.
SyncFailedAtCommand == SyncCall /\ last.ens[1].attempted /\ CommandFailed(last.ens[1])

\* C3 (as claimed): a sync attempt that fails for any reason, the timestamp write
\* included, leaves the timestamp file as it was, and the next freshness check
\* attempts the sync again.
C3_AnyFailureKeepsTimestamp ==
    [][/\ (last' # last /\ SyncFailed') => tsfile' = tsfile
       /\ (SyncFailed /\ last' # last /\ SyncCall') => last'.ens[1].attempted]_vars

\* C3 (amended): a sync attempt of which a git command fails (clone, both checkouts,
\* pull, or another exception of a command) returns failure and leaves the timestamp
\* file as it was, and the next freshness check attempts the sync again.
C3_CommandFailureKeepsTimestamp ==
    [][/\ (last' # last /\ SyncFailedAtCommand') =>
            ~last'.ens[1].ok /\ tsfile' = tsfile
       /\ (SyncFailedAtCommand /\ last' # last /\ SyncCall') =>
            last'.ens[1].attempted]_vars

\* C3 witness: a pull failed over a working copy whose timestamp was stale; the
\* old timestamp is still there.
C3_Witness ==
    /\ SyncFailedAtCommand
    /\ last.ens[1].run.pull = "fail"
    /\ last.pre.tsfile.exists
    /\ tsfile = last.pre.tsfile
    /\ \E T \in ClockValues : tsfile.text = FloatStr(T) /\ last.pre.now - T > 86400

\* C4 (as claimed): with no working copy, no timestamp file and a remote that
\* cannot be reached, each facade operation returns a text that begins with
\* "Error:" and creates no timestamp file.
C4_ScenarioE ==
    ( /\ last.op \in FacadeOps
      /\ ~last.pre.exists
      /\ ~last.pre.tsfile.exists
      /\ SyncCall => last.ens[1].run.clone \in {"fail", "raise"} )
    => /\ StartsWith(last.ret, "Error:")
       /\ ~tsfile.exists

\* C5: the persisted time never decreases: the timestamp file changes only in a
\* call whose clone or pull succeeded, a time it then holds is the current time,
\* and no persisted time is ahead of the clock (so each written time is at least
\* every time persisted before).
C5_LastSyncMonotone ==
    [][LET old == ParseFloat(tsfile.text)
           new == ParseFloat(tsfile'.text)
       IN  /\ tsfile' # tsfile =>
                /\ SyncCall'
                /\ last'.ens[1].run.clone = "ok" \/ last'.ens[1].run.pull = "ok"
                /\ tsfile'.exists /\ new.ok => last'.ens[1].ok /\ new.val = now'
           /\ tsfile'.exists /\ new.ok => new.val <= now'
           /\ (tsfile.exists /\ old.ok /\ tsfile'.exists /\ new.ok) => new.val >= old.val
      ]_vars

\* C5 witness: an update replaced an older persisted time by a later one.
C5_Witness ==
    /\ SyncCall
    /\ last.ens[1].ok
    /\ last.ens[1].attempted
    /\ last.pre.tsfile.exists
    /\ ParseFloat(last.pre.tsfile.text).ok
    /\ ParseFloat(tsfile.text).val > ParseFloat(last.pre.tsfile.text).val

\* The last segment of a path without its ".md", if it has one.
Stem(p) ==
    IF Len(p) >= 3 /\ SubSeq(p, Len(p) - 2, Len(p)) = ".md"
    THEN SubSeq(p, 1, Len(p) - 3) ELSE p

\* C9: get_full_content(v, p) returns the text of the file
\* versioned_docs/v/<stem of p>.md unchanged, an "Error:" text when that file is
\* absent or cannot be read, and the same for p and p + ".md".
C9_FullContent ==
    last.op = "get_full_content" =>
        LET target == <<"versioned_docs", last.version, Stem(last.file_path) \o ".md">>
            readable == {n \in repo.fs : n.path = target /\ n.kind = "file"}
        IN  /\ (repo.exists /\ readable # {}) => \A n \in readable : last.ret = n.text
            /\ ~(repo.exists /\ readable # {}) => StartsWith(last.ret, "Error:")
            /\ ~EndsWith(last.file_path, ".md") =>
                 last.ret = FullContentOf(repo, last.version, last.file_path \o ".md")

\* C9 witness: the path "a", given without extension, returned the text of a.md.
C9_Witness ==
    /\ last.op = "get_full_content"
    /\ last.file_path = "a"
    /\ last.ret = "# A\n\nText of a."

\* The names of the directories of "versioned_docs" that begin with "version-".
VersionDirs ==
    {n.path[2] : n \in {m \in repo.fs : /\ Len(m.path) = 2
                                        /\ m.path[1] = "versioned_docs"
                                        /\ m.kind = "dir"
                                        /\ Len(m.path[2]) >= 8
                                        /\ SubSeq(m.path[2], 1, 8) = "version-"}}

\* C10: get_versions() on a disk without working copy clones; when the sync succeeds
\* the timestamp file holds the time of the call and the result is the
\* newline-joined names of exactly the version directories ("no versions" when there
\* is none); when it fails the result is an "Error:" text and nothing is listed.
C10_ScenarioA ==
    (last.op = "get_versions" /\ ~last.pre.exists) =>
        LET c == last.ens[1]
            names == SplitOn(last.ret, "\n")
        IN  /\ c.cmds[1] = "clone"
            /\ c.ok =>
                 /\ tsfile = [exists |-> TRUE, text |-> FloatStr(last.end)]
                 /\ IF VersionDirs = {}
                    THEN last.ret = "No versions found in the Neoforge documentation repository."
                    ELSE /\ Len(names) = Cardinality(VersionDirs)
                         /\ {names[i] : i \in 1..Len(names)} = VersionDirs
            /\ ~c.ok =>
                 /\ StartsWith(last.ret, "Error:")
                 /\ \A i \in 1..Len(last.log) : last.log[i] # "list"

\* C10 witness: a clone brought two versions beside other entries, and both are
\* returned.
C10_Witness ==
    /\ last.op = "get_versions"
    /\ ~last.pre.exists
    /\ last.ens[1].ok
    /\ Cardinality(VersionDirs) = 2
    /\ Cardinality({n \in repo.fs : Len(n.path) = 2}) = 4
    /\ Len(SplitOn(last.ret, "\n")) = 2

----------------------------------------------------------------------------
(* Properties of the rendered outline, the preview and the title. *)

WhiteChars == {" ", "\n", "\t"}
TitleChars == {"#", " "}

\* The text of the file at path p of the working copy.
TextAt(p) == (CHOOSE m \in repo.fs : m.path = p).text

\* The lines of an outline, read back: of each line its level of indentation and,
\* when it is a marker line, its kind and the name it shows (what follows the mark, up
\* to the space of the " - " of a file line: no name of the trees holds a space) and
\* the title after it.
Outline(text) ==
    LET lines == SplitOn(text, "\n")
    IN [i \in 1..Len(lines) |->
          LET body == LStrip(lines[i], {" "})
              rest == SubSeq(body, Len(DirMark) + 1, Len(body))
              kind == IF StartsWith(body, DirMark) THEN "dir"
                      ELSE IF StartsWith(body, FileMark) THEN "file" ELSE "text"
              name == IF kind = "dir" THEN rest
                      ELSE IF kind = "file" THEN SplitOn(rest, " ")[1] ELSE ""
          IN [line  |-> lines[i],
              level |-> (Len(lines[i]) - Len(body)) \div 2,
              kind  |-> kind,
              name  |-> name,
              title |-> IF kind = "file" THEN SubSeq(rest, Len(name) + 4, Len(rest))
                        ELSE ""]]

\* The marker lines of level k of outline o, by line number.
MarkersAt(o, k) == {i \in DOMAIN o : o[i].kind # "text" /\ o[i].level = k}

\* The marker lines of level k + 1 that stand below the directory line i of level k.
MarkersBelow(o, i, k) ==
    {j \in MarkersAt(o, k + 1) : j > i /\ ~\E h \in MarkersAt(o, k) : i < h /\ h < j}

\* The names of the directories, and of the .md files, directly inside directory d.
DirNamesIn(d) ==
    {m.path[Len(d) + 1] : m \in {x \in repo.fs :
        Len(x.path) = Len(d) + 1 /\ SubSeq(x.path, 1, Len(d)) = d /\ x.kind = "dir"}}
DocNamesIn(d) ==
    {m.path[Len(d) + 1] : m \in {x \in repo.fs :
        /\ Len(x.path) = Len(d) + 1 /\ SubSeq(x.path, 1, Len(d)) = d
        /\ x.kind # "dir" /\ EndsWith(x.path[Len(d) + 1], ".md")}}

\* The marker lines idxs of outline o show directory d: its directories first, then
\* its .md files, each once and each group in ascending order of name, and nothing
\* else.
LevelShows(o, idxs, d) ==
    LET ds == {i \in idxs : o[i].kind = "dir"}
        fs == {i \in idxs : o[i].kind = "file"}
    IN /\ \A i \in ds, j \in fs : i < j
       /\ \A i, j \in ds : i < j => StrLess(o[i].name, o[j].name)
       /\ \A i, j \in fs : i < j => StrLess(o[i].name, o[j].name)
       /\ {o[i].name : i \in ds} = DirNamesIn(d)
       /\ {o[i].name : i \in fs} = DocNamesIn(d)

StructureShown ==
    /\ last.op = "get_structure"
    /\ PathExists(repo, VersionDir)
    /\ last.version = "version-1"

\* C6: at every directory level of the outline the directories come before the files,
\* each directory line is directly followed by that directory's own outline, the
\* directories are in ascending order of name and so are the files, every directory
\* and every .md file is shown, and a file whose name does not end in ".md" is not.
C6_DirsFirstSorted ==
    StructureShown =>
        LET o == Outline(last.ret)
            top == MarkersAt(o, 0)
        IN /\ LevelShows(o, top, VersionDir)
           /\ \A i \in {h \in top : o[h].kind = "dir"} :
                 LET d == VersionDir \o <<o[i].name>>
                     below == MarkersBelow(o, i, 0)
                 IN /\ LevelShows(o, below, d)
                    /\ \A j \in below :
                          /\ o[j].kind = "dir" =>
                                 LevelShows(o, MarkersBelow(o, j, 1), d \o <<o[j].name>>)
                          /\ \A h \in top : h > i => h > j
                    /\ below # {} => (i + 1) \in below
           /\ \A j \in MarkersAt(o, 1) :
                 \E i \in top : o[i].kind = "dir" /\ j \in MarkersBelow(o, i, 0)
           /\ MarkersAt(o, 2) = {}

\* An outline in which a directory named after a file precedes it, two directories
\* and two files are in order, and a file without ".md" is left out.
C6_Witness ==
    /\ StructureShown
    /\ DirNamesIn(VersionDir) = {"b", "c"}
    /\ DocNamesIn(VersionDir) = {"B.md", "a.md"}
    /\ DocNamesIn(VersionDir \o <<"b">>) = {"A.md", "x.md"}
    /\ DirNamesIn(VersionDir \o <<"b">>) = {"s"}
    /\ \E m \in repo.fs : m.path = VersionDir \o <<"b", "n.txt">>
    /\ SubSeq(last.ret, 1, 13) = "[D] b\n  [D] s"

\* The blank-line boundaries of s: the longest stretches of white space that begin
\* and end with a newline, as pairs <<first, last>> of positions.
BlankRuns(s) ==
    LET n == Len(s)
        White(a, b) == \A j \in a..b : CharAt(s, j) \in WhiteChars
        Stretch(a, b) == a < b /\ CharAt(s, a) = "\n" /\ CharAt(s, b) = "\n" /\ White(a, b)
    IN {r \in (1..n) \X (1..n) :
          /\ Stretch(r[1], r[2])
          /\ ~\E a \in 1..(r[1] - 1) : Stretch(a, r[1])
          /\ ~\E b \in (r[2] + 1)..n : Stretch(r[2], b)}

\* The i-th boundary of s from the left.
NthRun(s, i) ==
    CHOOSE r \in BlankRuns(s) :
        Cardinality({q \in BlankRuns(s) : q[1] < r[1]}) = i - 1

\* The paragraphs of s up to the third, with one blank line between them.
FirstThree(s) ==
    LET n == Cardinality(BlankRuns(s))
        r1 == NthRun(s, 1)
        r2 == NthRun(s, 2)
        stop == IF n >= 3 THEN NthRun(s, 3)[1] - 1 ELSE Len(s)
    IN IF n = 0 THEN s
       ELSE IF n = 1
            THEN SubSeq(s, 1, r1[1] - 1) \o "\n\n" \o SubSeq(s, r1[2] + 1, Len(s))
            ELSE SubSeq(s, 1, r1[1] - 1) \o "\n\n"
                 \o SubSeq(s, r1[2] + 1, r2[1] - 1) \o "\n\n"
                 \o SubSeq(s, r2[2] + 1, stop)

DocPathA == VersionDir \o <<"a.md">>

\* The preview lines below the one file line of outline o, their indentation removed.
ShownPreview(o) ==
    Join([i \in 1..(Len(o) - 2) |-> SubSeq(o[i + 1].line, 3, Len(o[i + 1].line))], "\n")

PreviewTaken ==
    /\ last.op \in {"get_preview", "get_structure"}
    /\ \E m \in repo.fs : m.path = DocPathA /\ m.kind = "file"
    /\ DocNamesIn(VersionDir) = {"a.md"} /\ DirNamesIn(VersionDir) = {}

\* C7: the preview of a content, by get_preview and within _build_structure alike, is
\* its first min(3, n) paragraphs, split at the blank-line boundaries and rejoined with
\* one blank line between them; it never has more than 3 paragraphs, and a content
\* with no boundary is its own preview.
C7_PreviewFirstThree ==
    PreviewTaken =>
        LET o == Outline(last.ret)
            got == IF last.op = "get_preview" THEN last.ret ELSE ShownPreview(o)
            content == TextAt(DocPathA)
        IN /\ got = FirstThree(content)
           /\ Cardinality(BlankRuns(got)) <= 2
           /\ BlankRuns(content) = {} => got = content
           /\ last.op = "get_structure" =>
                 \A i \in 2..(Len(o) - 1) : StartsWith(o[i].line, Indent(1))

\* A content of four paragraphs, cut to three, in an outline.
C7_Witness ==
    /\ PreviewTaken
    /\ last.op = "get_structure"
    /\ Cardinality(BlankRuns(TextAt(DocPathA))) = 3
    /\ ShownPreview(Outline(last.ret)) = "\n\na\n\na"

\* The first line of a text.
HeadLine(s) == SplitOn(s, "\n")[1]

\* s without the characters of cs it begins with.
LeadingRemoved(s, cs) ==
    LET keep == {i \in 1..Len(s) : CharAt(s, i) \notin cs}
    IN IF keep = {} THEN ""
       ELSE SubSeq(s, CHOOSE i \in keep : \A j \in keep : i <= j, Len(s))

\* The file lines of the outline the last call returned: the name and the title each
\* shows, and the text of its file.
ShownTitles ==
    LET o == Outline(last.ret)
        top == MarkersAt(o, 0)
        dirOf(j) == IF o[j].level = 0 THEN VersionDir
                    ELSE VersionDir \o
                         <<o[CHOOSE i \in top : j \in MarkersBelow(o, i, 0)].name>>
    IN {[name  |-> o[j].name,
         title |-> o[j].title,
         text  |-> TextAt(dirOf(j) \o <<o[j].name>>)]
        : j \in {h \in DOMAIN o : o[h].kind = "file"}}

\* C8: the title of a file is the first line of its content without the
\* "#" and space characters it begins with, and the file name when the content is
\* empty.
C8_TitleLeadingOnly ==
    StructureShown =>
        \A t \in ShownTitles :
            t.title = IF t.text = "" THEN t.name
                      ELSE LeadingRemoved(HeadLine(t.text), TitleChars)

----------------------------------------------------------------------------
(* Properties of the startup programs. *)

Serves == boot.step = "serving"

\* The first provider failed to initialize: its constructor raised, or the probe
\* reported an error.
FirstFailed == boot.built[1].raised \/ Contains(boot.versions, "Error")

\* The branch the registered provider was constructed with.
RegisteredBranch == boot.built[boot.registered].asked

\* C11: when the server starts running, if the provider of the configured branch
\* failed to initialize then exactly one more provider was constructed, with the
\* alternate branch, and it is the one registered; if it initialized, no provider of
\* the alternate branch was constructed (but one a --branch flag asks for) and the
\* provider registered is one of the configured branch or of the flag's.
C11_StartupFallback ==
    Serves =>
        LET cfg == boot.built[1].asked
            asked == {cfg} \cup (IF boot.flag # Unset THEN {boot.flag} ELSE {})
        IN IF FirstFailed
           THEN /\ Len(boot.built) = 2
                /\ boot.built[2] = [asked |-> AltBranch(cfg), raised |-> FALSE]
                /\ boot.registered = 2
           ELSE /\ \A i \in 1..Len(boot.built) : boot.built[i].asked \in asked
                /\ RegisteredBranch \in asked

\* C12: when the server starts running with MCP_BRANCH set and no --branch flag, the
\* provider registered was constructed with the branch MCP_BRANCH names (or, after a
\* failed initialization, with its alternate); the registered provider is one of the
\* default "main" without a fallback only when neither names a branch.
C12_EnvBranch ==
    (Serves /\ boot.env # Unset /\ boot.flag = Unset) =>
        \/ RegisteredBranch = boot.env
        \/ FirstFailed /\ RegisteredBranch = AltBranch(boot.env)

----------------------------------------------------------------------------
(* Properties of the branch fallback of an update. *)

\* The freshness check c updated the working copy and its checkout of the configured
\* branch failed.
CheckoutFailed(c) == c.attempted /\ c.run.checkout = "fail"

\* C13: an update whose checkout of the configured branch fails and whose checkout of
\* "master" succeeds leaves the provider's branch at "master", whatever the pull does;
\* a provider whose branch is "master" keeps it in every later step; and an update
\* of which both checkouts fail leaves the branch as it was, runs no pull and returns
\* failure.
C13_FallbackBranchSticks ==
    [][/\ (last' # last /\ SyncCall') =>
            LET c == last'.ens[1]
            IN /\ (CheckoutFailed(c) /\ c.run.fallback = "ok") => branch' = "master"
               /\ (CheckoutFailed(c) /\ c.run.fallback # "ok") =>
                      /\ branch' = last'.pre.branch
                      /\ ~c.ok
                      /\ c.cmds = <<"checkout", "checkout master">>
       /\ (pc = "ready" /\ branch = "master") => branch' = "master"]_vars

\* A provider of "main" after an update whose checkout fell back to "master" and
\* whose pull then failed.
C13_Witness ==
    /\ SyncCall
    /\ last.op = "get_versions"
    /\ last.pre.branch = "main"
    /\ last.ens[1].run.pull = "fail"
    /\ branch = "master"
    /\ ~last.ens[1].ok
    /\ last.ens[1].cmds = <<"checkout", "checkout master", "pull">>

----------------------------------------------------------------------------
(* Properties of freshness checks that run side by side. *)

\* What check p found on disk was no working copy, no timestamp file, a text that is
\* no number, or a time more than 86400 seconds back.
SawStale(p) ==
    LET saw == procs.ps[p].saw
    IN \/ ~saw.exists
       \/ ~saw.tsfile.exists
       \/ ~\E T \in ClockValues : saw.tsfile.text = FloatStr(T)
       \/ \E T \in ClockValues : saw.tsfile.text = FloatStr(T) /\ saw.now - T > 86400

\* C14: nothing excludes one freshness check from another on the same repo_dir: each
\* one that finds the timestamp missing or stale goes on to its clone or update,
\* whatever the other is doing, and the timestamp on disk is what the last write left,
\* the time of the check that wrote last; that time can lie before the one on disk
\* it overwrites (see the witness).
C14_LastWriterWins ==
    /\ \A p \in Checkers :
          (procs.ps[p].step # "idle" /\ SawStale(p)) => procs.ps[p].attempted
    /\ procs.writes # <<>> =>
          LET lw == procs.writes[Len(procs.writes)]
          IN /\ lw.w = "ok" => tsfile = [exists |-> TRUE, text |-> FloatStr(lw.t)]
             /\ lw.w = "torn" => tsfile = [exists |-> TRUE, text |-> ""]
             /\ lw.w = "raise" => tsfile = lw.over

\* Both checks found no timestamp, both synced and both wrote; the second write put
\* an earlier time over the later one the first had persisted.
C14_Witness ==
    /\ \A p \in Checkers :
          procs.ps[p].step = "done" /\ procs.ps[p].attempted /\ SawStale(p)
    /\ Len(procs.writes) = 2
    /\ procs.writes[1].w = "ok" /\ procs.writes[2].w = "ok"
    /\ procs.writes[1].by # procs.writes[2].by
    /\ procs.writes[2].t < procs.writes[1].t
    /\ procs.writes[2].over.text = FloatStr(procs.writes[1].t)
    /\ tsfile.text = FloatStr(procs.writes[2].t)

----------------------------------------------------------------------------
(* Properties of empty directories in the outline. *)

\* Directory d shows nothing: it holds no directory and no .md file.
ShowsNothing(d) == DirNamesIn(d) = {} /\ DocNamesIn(d) = {}

\* Line i of outline o, a directory line of level k, is followed by no line of its
\* own: the outline ends with it, or the next line is a marker line of a level up to
\* k.
NoChildLines(o, i, k) ==
    i < Len(o) => o[i + 1].kind # "text" /\ o[i + 1].level <= k

\* C15: every directory has its marker line, whatever it holds; one that is empty or
\* holds only files that are no .md files has the marker line and no line below it,
\* one that shows something has its first child's marker line right below; and a
\* version directory that is missing, empty or shows nothing gives "No structure found
\* for version: <version>".
C15_EmptyDirMarkerOnly ==
    last.op = "get_structure" =>
        LET root == <<"versioned_docs", last.version>>
        IN IF ~PathExists(repo, root) \/ ShowsNothing(root)
           THEN last.ret = "No structure found for version: " \o last.version
           ELSE LET o == Outline(last.ret)
                    top == MarkersAt(o, 0)
                IN /\ {o[i].name : i \in {h \in top : o[h].kind = "dir"}}
                          = DirNamesIn(root)
                   /\ \A i \in {h \in top : o[h].kind = "dir"} :
                         LET d == root \o <<o[i].name>>
                         IN IF ShowsNothing(d) THEN NoChildLines(o, i, 0)
                            ELSE /\ (i + 1) \in MarkersBelow(o, i, 0)
                                 /\ {o[j].name : j \in {h \in MarkersBelow(o, i, 0) :
                                                          o[h].kind = "dir"}}
                                        = DirNamesIn(d)
                                 /\ \A j \in MarkersBelow(o, i, 0) :
                                       o[j].kind = "dir" => NoChildLines(o, j, 1)

\* An outline with a directory that holds only a file that is no .md file, followed
\* by the line of the next directory.
C15_Witness ==
    /\ StructureShown
    /\ DirNamesIn(VersionDir) = {"b", "c"}
    /\ DocNamesIn(VersionDir) = {"a.md"}
    /\ ShowsNothing(VersionDir \o <<"b">>)
    /\ \E m \in repo.fs : m.path = VersionDir \o <<"b", "n.txt">>
    /\ SubSeq(last.ret, 1, 12) = "[D] b\n[D] c\n"

============================================================================
